---- MODULE Spec2Model ----
(***************************************************************************)
(* Model of module_structure_cleaner (src/src/main.rs).                    *)
(*                                                                         *)
(* A line of text is a sequence of Unicode code points (naturals).         *)
(* clean_text is modelled as the code computes it: the regex replace_all   *)
(* of line 77 followed by the chain of str::replace calls of lines 80-123. *)
(* main is modelled as a state machine over the picker, the input file,    *)
(* the output file and the per-line loop.                                  *)
(***************************************************************************)
EXTENDS Naturals, Sequences, FiniteSets

VARIABLES
    \* ---- clean_text (one call) ----
    cpc,        \* position inside clean_text: "idle" (not called), "start", "stripped", "done"
    input,      \* the &str argument
    no_ansi,    \* the local no_ansi (line 77)
    cleaned,    \* the returned String (line 124)
    calls,      \* how many times clean_text has been applied to the original line
    original,   \* the line the first call was given
    \* ---- main ----
    pc,          \* position inside main; "panicked" after expect or println! panicked
    input_file,  \* result of pick_file(): "unset", "none", "some"
    in_lines,    \* the lines of the file at input_path
    pos,         \* number of iterations of the for loop completed
    opened,      \* File::open succeeded (reader exists)
    created,     \* File::create succeeded (output handle exists)
    out_exists,  \* a file exists at the output path
    out_content, \* its content, as bytes
    wrote,       \* bytes of the current line's record that writeln! has written
    err          \* the error main returned: "none", "open", "create", "read", "write"

cvars == <<cpc, input, no_ansi, cleaned, calls, original>>
mvars == <<pc, input_file, in_lines, pos, opened, created, out_exists, out_content,
           wrote, err>>
vars  == <<cpc, input, no_ansi, cleaned, calls, original,
           pc, input_file, in_lines, pos, opened, created, out_exists, out_content,
           wrote, err>>

----------------------------------------------------------------------------
(* Characters named by the regex of line 76 and by writeln! of line 53.     *)

ESC == 27
LBRACKET == 91
NEWLINE == 10

\* [0-9;]
Params == (48..57) \cup {59}
\* [a-zA-Z]
Letters == (65..90) \cup (97..122)

----------------------------------------------------------------------------
(* The regex \x1B\[[0-9;]*[a-zA-Z] and Regex::replace_all.                  *)

RECURSIVE ParamEnd(_, _)
\* First index >= j of s that does not hold a character of [0-9;]
\* (Len(s)+1 when the run reaches the end of the line): the greedy star.
ParamEnd(s, j) ==
    IF j <= Len(s) /\ s[j] \in Params THEN ParamEnd(s, j + 1) ELSE j

\* A variant of the pattern whose final letter is optional.
MatchEndOptionalLetter(s, i) ==
    IF i + 1 <= Len(s) /\ s[i] = ESC /\ s[i + 1] = LBRACKET
    THEN LET j == ParamEnd(s, i + 2)
         IN  IF j <= Len(s) /\ s[j] \in Letters THEN j ELSE j - 1
    ELSE 0

\* A variant of the pattern that lacks the '[' after ESC.
MatchEndNoBracket(s, i) ==
    IF i + 1 <= Len(s) /\ s[i] = ESC
    THEN LET j == ParamEnd(s, i + 1)
         IN  IF j <= Len(s) /\ s[j] \in Letters THEN j ELSE 0
    ELSE 0

\* The index of the last character of the match of the regex that starts at
\* index i of s, or 0 when the regex does not match at i.
MatchEnd(s, i) ==
    IF i + 1 <= Len(s) /\ s[i] = ESC /\ s[i + 1] = LBRACKET
    THEN LET j == ParamEnd(s, i + 2)
         IN  IF j <= Len(s) /\ s[j] \in Letters THEN j ELSE 0
    ELSE 0

RECURSIVE FindIter(_, _)
\* The leftmost, non-overlapping matches of the regex in s from index i on,
\* as the iterator behind replace_all yields them.
FindIter(s, i) ==
    IF i > Len(s) THEN <<>>
    ELSE LET e == MatchEnd(s, i)
         IN  IF e > 0
             THEN <<[start |-> i, end |-> e]>> \o FindIter(s, e + 1)
             ELSE FindIter(s, i + 1)

RECURSIVE ReplaceFrom(_, _, _, _, _)
\* replace_all's loop: the text between the matches, each match replaced by rep.
ReplaceFrom(s, ms, k, last, rep) ==
    IF k > Len(ms) THEN SubSeq(s, last, Len(s))
    ELSE SubSeq(s, last, ms[k].start - 1) \o rep
         \o ReplaceFrom(s, ms, k + 1, ms[k].end + 1, rep)

\* A variant that writes a space in place of every match.
ReplaceAllWithSpace(s) == ReplaceFrom(s, FindIter(s, 1), 1, 1, <<32>>)

\* A variant that deletes the first match only (Regex::replace).
ReplaceFirst(s) ==
    LET ms == FindIter(s, 1)
    IN  IF ms = <<>> THEN s
        ELSE SubSeq(s, 1, ms[1].start - 1) \o SubSeq(s, ms[1].end + 1, Len(s))

\* ansi_regex.replace_all(input, "")
ReplaceAll(s) == ReplaceFrom(s, FindIter(s, 1), 1, 1, <<>>)

----------------------------------------------------------------------------
(* str::replace with a char or a char-array pattern, and the chain.         *)

RECURSIVE Replace(_, _, _)
\* s.replace(from, to): every character of s that is in from becomes to.
Replace(s, from, to) ==
    IF s = <<>> THEN <<>>
    ELSE (IF Head(s) \in from THEN to ELSE <<Head(s)>>) \o Replace(Tail(s), from, to)

\* The chain of lines 81-123, in source order.
GlyphSteps ==
    << [from |-> {9500}, to |-> <<43>>],   \* line 81
       [from |-> {9472}, to |-> <<45>>],   \* line 82
       [from |-> {9474}, to |-> <<124>>],  \* line 83
       [from |-> {9492, 9484, 9488, 9496, 9516, 9524, 9532,
                  9581, 9582, 9583, 9584}, to |-> <<43>>],  \* line 84
       [from |-> {9585}, to |-> <<47>>],   \* line 85
       [from |-> {9586}, to |-> <<92>>],   \* line 86
       [from |-> {9587}, to |-> <<88>>],   \* line 87
       [from |-> {9588}, to |-> <<45>>],   \* line 88
       [from |-> {9589}, to |-> <<124>>],  \* line 89
       [from |-> {9590}, to |-> <<45>>],   \* line 90
       [from |-> {9591}, to |-> <<124>>],  \* line 91
       [from |-> {9592}, to |-> <<45>>],   \* line 92
       [from |-> {9593}, to |-> <<124>>],  \* line 93
       [from |-> {9594}, to |-> <<45>>],   \* line 94
       [from |-> {9595}, to |-> <<124>>],  \* line 95
       [from |-> {9596}, to |-> <<45>>],   \* line 96
       [from |-> {9597}, to |-> <<124>>],  \* line 97
       [from |-> {9598}, to |-> <<45>>],   \* line 98
       [from |-> {9599}, to |-> <<124>>],  \* line 99
       [from |-> {9552}, to |-> <<61>>],   \* line 100
       [from |-> {9553}, to |-> <<124>>],  \* line 101
       [from |-> {9554, 9555, 9556, 9557, 9558, 9559, 9560, 9561, 9562,
                  9563, 9564, 9565, 9566, 9567, 9568, 9569, 9570, 9571,
                  9572, 9573, 9574, 9575, 9576, 9577, 9578, 9579, 9580,
                  9581, 9582, 9583, 9584}, to |-> <<43>>],  \* lines 102-108
       [from |-> {9585}, to |-> <<47>>],   \* line 109
       [from |-> {9586}, to |-> <<92>>],   \* line 110
       [from |-> {9587}, to |-> <<88>>],   \* line 111
       [from |-> {9588}, to |-> <<45>>],   \* line 112
       [from |-> {9589}, to |-> <<124>>],  \* line 113
       [from |-> {9590}, to |-> <<45>>],   \* line 114
       [from |-> {9591}, to |-> <<124>>],  \* line 115
       [from |-> {9592}, to |-> <<45>>],   \* line 116
       [from |-> {9593}, to |-> <<124>>],  \* line 117
       [from |-> {9594}, to |-> <<45>>],   \* line 118
       [from |-> {9595}, to |-> <<124>>],  \* line 119
       [from |-> {9596}, to |-> <<45>>],   \* line 120
       [from |-> {9597}, to |-> <<124>>],  \* line 121
       [from |-> {9598}, to |-> <<45>>],   \* line 122
       [from |-> {9599}, to |-> <<124>>] >> \* line 123

RECURSIVE ApplySteps(_, _, _)
\* The method chain: step k applied to the result of steps 1..k-1.
ApplySteps(s, steps, k) ==
    IF k > Len(steps) THEN s
    ELSE ApplySteps(Replace(s, steps[k].from, steps[k].to), steps, k + 1)

\* A variant of the chain that stops after line 101 (no double-line corners).
ReplaceChainShort(s) == ApplySteps(s, SubSeq(GlyphSteps, 1, 21), 1)

\* A variant of the chain that leaves U+2573 in place.
ReplaceChainKeepCross(s) ==
    ApplySteps(s, SelectSeq(GlyphSteps, LAMBDA st : st.from # {9587}), 1)

\* no_ansi.replace(..).replace(..) ... .to_string()
ReplaceChain(s) == ApplySteps(s, GlyphSteps, 1)

\* The function clean_text as a whole.
clean_text(s) == ReplaceChain(ReplaceAll(s))

----------------------------------------------------------------------------
(* The pattern and the glyph table read declaratively.                      *)

\* e is one escape sequence: ESC '[' [0-9;]* [A-Za-z]
IsEscapeSeq(e) ==
    /\ Len(e) >= 3
    /\ e[1] = ESC
    /\ e[2] = LBRACKET
    /\ e[Len(e)] \in Letters
    /\ \A k \in 3..(Len(e) - 1) : e[k] \in Params

\* s has a substring that is an escape sequence
HasEscapeSeq(s) ==
    \E i \in 1..Len(s) : \E j \in i..Len(s) : IsEscapeSeq(SubSeq(s, i, j))

\* Source characters of the table, by replacement.
PlusGlyphs  == {9500, 9492, 9484, 9488, 9496, 9516, 9524, 9532}
               \cup (9581..9584) \cup (9554..9580)
MinusGlyphs == {9472, 9588, 9590, 9592, 9594, 9596, 9598}
BarGlyphs   == {9474, 9589, 9591, 9593, 9595, 9597, 9599, 9553}
GlyphKeys   == PlusGlyphs \cup MinusGlyphs \cup BarGlyphs
               \cup {9585, 9586, 9587, 9552}

\* The unified table: one entry per source character.
GlyphMap ==
    [c \in GlyphKeys |->
        CASE c \in PlusGlyphs  -> <<43>>
          [] c \in MinusGlyphs -> <<45>>
          [] c \in BarGlyphs   -> <<124>>
          [] c = 9585          -> <<47>>
          [] c = 9586          -> <<92>>
          [] c = 9587          -> <<88>>
          [] c = 9552          -> <<61>>]

RECURSIVE SinglePass(_)
\* One pass over s, each character mapped on its own through GlyphMap.
SinglePass(s) ==
    IF s = <<>> THEN <<>>
    ELSE (IF Head(s) \in GlyphKeys THEN GlyphMap[Head(s)] ELSE <<Head(s)>>)
         \o SinglePass(Tail(s))

HasGlyphKey(s) == \E i \in 1..Len(s) : s[i] \in GlyphKeys

RECURSIVE RemovedLen(_, _)
\* Total length of the matches ms[k..] .
RemovedLen(ms, k) ==
    IF k > Len(ms) THEN 0
    ELSE (ms[k].end - ms[k].start + 1) + RemovedLen(ms, k + 1)

----------------------------------------------------------------------------
(* Inputs.                                                                  *)

MaxLen == 5

BoundedSeq(S, n) == UNION {[1..k -> S] : k \in 0..n}

\* ESC, '[', ';', 'm', U+2573
Core == {ESC, LBRACKET, 59, 109, 9587}
CoreLines == BoundedSeq(Core, MaxLen)

\* The lines of the documented examples, and some longer lines.
ConcreteCases ==
    { <<27, 91, 51, 49, 109, 72, 101, 108, 108, 111, 27, 91, 48, 109>>,
      <<9500, 9472, 9472, 9508>>,
      <<9474, 32, 100, 97, 116, 97, 32, 9474>>,
      <<112, 108, 97, 105, 110, 32, 97, 115, 99, 105, 105, 32, 108, 105, 110, 101>>,
      <<9556, 9552, 9552, 9552, 9559>>,
      <<27, 91, 51, 49>>,
      <<27, 27, 91, 109, 91, 109>>,
      <<27, 91, 51, 49, 59, 9587>>,
      <<27, 91, 109, 9556, 27, 91, 49, 59, 51, 50, 109, 9587, 27, 91>>,
      <<97, 27, 91, 109, 27, 91, 48, 75, 9474, 27, 91, 51, 49>> }

\* The whole box-drawing block U+2500..U+257F and some other characters.
ProbeChars == (9472..9599) \cup {32, 43, 45, 47, 61, 88, 92, 124, 233, 20013}
\* U+2573, U+256D (named in both corner sets), U+2524, '+'
PairChars  == {9587, 9581, 9508, 43}
ProbeLines == {<<c>> : c \in ProbeChars}
              \cup {<<c, d>> : c \in ProbeChars, d \in PairChars}
              \cup {<<d, c>> : c \in ProbeChars, d \in PairChars}

Lines == CoreLines \cup ConcreteCases \cup ProbeLines

----------------------------------------------------------------------------
(* clean_text as a state machine of one call, applied up to MaxCalls times. *)

MainIdle ==
    /\ pc = "idle"
    /\ input_file = "unset"
    /\ in_lines = <<>>
    /\ pos = 0
    /\ opened = FALSE
    /\ created = FALSE
    /\ out_exists = FALSE
    /\ out_content = <<>>
    /\ wrote = 0
    /\ err = "none"

InitClean ==
    /\ cpc = "start"
    /\ input \in Lines
    /\ no_ansi = <<>>
    /\ cleaned = <<>>
    /\ calls = 1
    /\ original = input
    /\ MainIdle

\* lines 76-77
StripAnsi ==
    /\ cpc = "start"
    /\ no_ansi' = ReplaceAll(input)
    /\ cpc' = "stripped"
    /\ UNCHANGED <<input, cleaned, calls, original>>
    /\ UNCHANGED mvars

\* lines 80-124
ReplaceGlyphs ==
    /\ cpc = "stripped"
    /\ cleaned' = ReplaceChain(no_ansi)
    /\ cpc' = "done"
    /\ UNCHANGED <<input, no_ansi, calls, original>>
    /\ UNCHANGED mvars

\* clean_text called again on its own result
Reapply ==
    /\ pc = "idle"
    /\ cpc = "done"
    /\ calls = 1
    /\ input' = cleaned
    /\ no_ansi' = <<>>
    /\ cleaned' = <<>>
    /\ cpc' = "start"
    /\ calls' = calls + 1
    /\ UNCHANGED original
    /\ UNCHANGED mvars

NextClean == StripAnsi \/ ReplaceGlyphs \/ Reapply

SpecClean == InitClean /\ [][NextClean]_vars

----------------------------------------------------------------------------
(* Properties of clean_text, checked under SpecClean.                       *)

\* Every ESC of s begins an escape sequence of s.
EveryEscBeginsSeq(s) ==
    \A i \in 1..Len(s) :
        s[i] = ESC => \E j \in i..Len(s) : IsEscapeSeq(SubSeq(s, i, j))

\* s is ESC '[' followed by parameter characters only, up to the end of line.
IsUnterminated(s) ==
    /\ Len(s) >= 2
    /\ s[1] = ESC
    /\ s[2] = LBRACKET
    /\ \A k \in 3..Len(s) : s[k] \in Params

\* The matches of ms that end before index i.
EndingBefore(ms, i) == SelectSeq(ms, LAMBDA m : m.end < i)

\* No output character of a replacement is a source character of any replacement.
DisjointTargets ==
    \A k \in 1..Len(GlyphSteps) : \A l \in 1..Len(GlyphSteps) :
        \A n \in 1..Len(GlyphSteps[k].to) :
            GlyphSteps[k].to[n] \notin GlyphSteps[l].from

\* C1 (as stated): clean_text applied to its own result returns it unchanged,
\* for every input line.
C1_Idempotent ==
    (calls = 2 /\ cpc = "done") => cleaned = input

\* C1 (amended): clean_text applied to its own result returns it unchanged
\* exactly when that result holds no substring ESC '[' [0-9;]* [A-Za-z].
C1_IdempotentIffEscapeFree ==
    (calls = 2 /\ cpc = "done") => ((cleaned = input) <=> ~HasEscapeSeq(input))

C1_Witness ==
    /\ calls = 2
    /\ cpc = "done"
    /\ HasEscapeSeq(original)
    /\ HasGlyphKey(original)
    /\ input # original
    /\ input # <<>>
    /\ cleaned = input

\* C2 (as stated): the result of clean_text holds no escape sequence and no
\* character that is a key of the glyph table.
C2_NoEscapeNoGlyph ==
    cpc = "done" => (~HasEscapeSeq(cleaned) /\ ~HasGlyphKey(cleaned))

\* C2 (amended): the result holds no key of the glyph table, and it holds no
\* escape sequence whenever every ESC of the input begins an escape sequence.
C2_NoGlyphAndNoEscapeWhenAllMatched ==
    cpc = "done" =>
        /\ ~HasGlyphKey(cleaned)
        /\ EveryEscBeginsSeq(input) => ~HasEscapeSeq(cleaned)

C2_Witness ==
    /\ cpc = "done"
    /\ calls = 1
    /\ HasEscapeSeq(input)
    /\ EveryEscBeginsSeq(input)
    /\ HasGlyphKey(input)
    /\ cleaned # <<>>

\* C3: for every way of writing the input as a + e + b with e one escape
\* sequence, clean_text(a + e + b) = clean_text(a) + clean_text(b).
C3_EscapeVanishes ==
    cpc = "done" =>
        \A i \in 1..Len(input) : \A j \in i..Len(input) :
            IsEscapeSeq(SubSeq(input, i, j)) =>
                cleaned = clean_text(SubSeq(input, 1, i - 1))
                          \o clean_text(SubSeq(input, j + 1, Len(input)))

C3_Witness ==
    /\ cpc = "done"
    /\ \E i \in 2..Len(input) : \E j \in i..(Len(input) - 1) :
          /\ IsEscapeSeq(SubSeq(input, i, j))
          /\ HasEscapeSeq(SubSeq(input, j + 1, Len(input)))
          /\ cleaned = clean_text(SubSeq(input, 1, i - 1))
                       \o clean_text(SubSeq(input, j + 1, Len(input)))
    /\ cleaned # <<>>

\* C4 (as stated): clean_text of the line U+251C U+2500 U+2500 U+2524
\* returns "+--+".
C4_TeeLine ==
    (cpc = "done" /\ calls = 1 /\ input = <<9500, 9472, 9472, 9508>>)
        => cleaned = <<43, 45, 45, 43>>

\* C5: an input with no escape sequence and no key of the glyph table is
\* returned unchanged.
C5_IdentityOnClean ==
    (cpc = "done" /\ ~HasEscapeSeq(input) /\ ~HasGlyphKey(input))
        => cleaned = input

C5_Witness ==
    /\ cpc = "done"
    /\ calls = 1
    /\ ~HasEscapeSeq(input)
    /\ ~HasGlyphKey(input)
    /\ Len(input) >= 2
    /\ \E i \in 1..Len(input) : input[i] = ESC
    /\ cleaned = input

\* C6: the result is no longer than the input, and its length is the length
\* of the input minus the total length of the removed matches.
C6_Length ==
    cpc = "done" =>
        /\ Len(cleaned) <= Len(input)
        /\ Len(cleaned) + RemovedLen(FindIter(input, 1), 1) = Len(input)

C6_Witness ==
    /\ cpc = "done"
    /\ Len(FindIter(input, 1)) >= 2
    /\ HasGlyphKey(no_ansi)
    /\ Len(cleaned) > 0
    /\ Len(cleaned) < Len(input)

\* C7: a line ESC '[' p with p in [0-9;]* is returned unchanged; and every
\* run ESC '[' [0-9;]* of the input that is not followed by a letter is still
\* present, whole, after the escape removal.
C7_UnterminatedKept ==
    /\ (cpc = "done" /\ IsUnterminated(input)) => cleaned = input
    /\ cpc \in {"stripped", "done"} =>
          \A i \in 1..(Len(input) - 1) :
              (input[i] = ESC /\ input[i + 1] = LBRACKET) =>
                  LET j == ParamEnd(input, i + 2)
                      r == RemovedLen(EndingBefore(FindIter(input, 1), i), 1)
                  IN  (j > Len(input) \/ input[j] \notin Letters) =>
                          /\ j - 1 - r <= Len(no_ansi)
                          /\ SubSeq(no_ansi, i - r, j - 1 - r) = SubSeq(input, i, j - 1)

C7_Witness ==
    /\ cpc = "done"
    /\ \E i \in 2..(Len(input) - 2) :
          /\ input[i] = ESC
          /\ input[i + 1] = LBRACKET
          /\ input[i + 2] \in Params
          /\ ParamEnd(input, i + 2) > Len(input)
          /\ Len(FindIter(input, 1)) >= 1
          /\ FindIter(input, 1)[1].end < i
    /\ Len(cleaned) < Len(input)

\* C10: on an input without escape sequences the chain of replacements gives
\* what one pass through the unified table gives, and no replacement writes a
\* character that any replacement reads.
C10_ChainIsSinglePass ==
    /\ DisjointTargets
    /\ (cpc = "done" /\ ~HasEscapeSeq(input)) => cleaned = SinglePass(input)

C10_Witness ==
    /\ cpc = "done"
    /\ ~HasEscapeSeq(input)
    /\ Len(input) = 2
    /\ input[1] \in 9554..9580
    /\ input[2] \in 9581..9584
    /\ cleaned = <<43, 43>>

----------------------------------------------------------------------------
(* main as a state machine.                                                 *)

MaxLines == 3

\* an empty line, "a", ESC "[m" U+2573, U+251C U+2500 U+2524
FileLines == { <<>>, <<97>>, <<27, 91, 109, 9587>>, <<9500, 9472, 9508>> }
Files == BoundedSeq(FileLines, MaxLines)

\* The UTF-8 bytes of one character, as a String holds them.
Utf8(c) ==
    IF c < 128 THEN <<c>>
    ELSE IF c < 2048 THEN <<192 + (c \div 64), 128 + (c % 64)>>
    ELSE IF c < 65536
         THEN <<224 + (c \div 4096), 128 + ((c \div 64) % 64), 128 + (c % 64)>>
         ELSE <<240 + (c \div 262144), 128 + ((c \div 4096) % 64),
                128 + ((c \div 64) % 64), 128 + (c % 64)>>

RECURSIVE Encode(_)
\* The bytes of a String.
Encode(s) == IF s = <<>> THEN <<>> ELSE Utf8(Head(s)) \o Encode(Tail(s))

\* What writeln!(output, "{}", line) hands to the file: the bytes of the line,
\* then the line terminator.
Record(line) == Encode(line) \o <<NEWLINE>>

\* What a file left at the output path by an earlier run holds: "old\n".
StaleContent == <<111, 108, 100, 10>>

InitMain ==
    /\ pc = "pick"
    /\ input_file = "unset"
    /\ in_lines \in Files
    /\ pos = 0
    /\ opened = FALSE
    /\ created = FALSE
    /\ out_exists \in BOOLEAN
    /\ out_content = IF out_exists THEN StaleContent ELSE <<>>
    /\ wrote = 0
    /\ err = "none"
    /\ cpc = "idle"
    /\ input = <<>>
    /\ no_ansi = <<>>
    /\ cleaned = <<>>
    /\ calls = 0
    /\ original = <<>>

\* lines 18-40: pick_file() returned Some(path); the output path is computed
PickFile ==
    /\ pc = "pick"
    /\ input_file' = "some"
    /\ pc' = "open"
    /\ UNCHANGED <<in_lines, pos, opened, created, out_exists, out_content, wrote, err>>
    /\ UNCHANGED cvars

\* lines 18-40: pick_file() returned Some(path), but stdout cannot be written:
\* the println! of line 36 panics, before File::open
PickFilePrintPanics ==
    /\ pc = "pick"
    /\ input_file' = "some"
    /\ pc' = "panicked"
    /\ UNCHANGED <<in_lines, pos, opened, created, out_exists, out_content, wrote, err>>
    /\ UNCHANGED cvars

\* A variant in which a missing path is replaced by a default one.
PickCancelledContinues ==
    /\ pc = "pick"
    /\ input_file' = "none"
    /\ pc' = "open"
    /\ UNCHANGED <<in_lines, pos, opened, created, out_exists, out_content, wrote, err>>
    /\ UNCHANGED cvars

\* lines 18-22: pick_file() returned None; expect panics
PickCancelled ==
    /\ pc = "pick"
    /\ input_file' = "none"
    /\ pc' = "panicked"
    /\ UNCHANGED <<in_lines, pos, opened, created, out_exists, out_content, wrote, err>>
    /\ UNCHANGED cvars

\* lines 43-44: File::open succeeded
OpenInput ==
    /\ pc = "open"
    /\ opened' = TRUE
    /\ pc' = "create"
    /\ UNCHANGED <<input_file, in_lines, pos, created, out_exists, out_content, wrote, err>>
    /\ UNCHANGED cvars

\* line 43: File::open failed; ? returns the error
OpenInputFails ==
    /\ pc = "open"
    /\ pc' = "failed"
    /\ err' = "open"
    /\ UNCHANGED <<input_file, in_lines, pos, opened, created, out_exists, out_content, wrote>>
    /\ UNCHANGED cvars

\* line 47: File::create succeeded: the file exists and is empty
CreateOutput ==
    /\ pc = "create"
    /\ created' = TRUE
    /\ out_exists' = TRUE
    /\ out_content' = <<>>
    /\ pc' = "loop"
    /\ UNCHANGED <<input_file, in_lines, pos, opened, wrote, err>>
    /\ UNCHANGED cvars

\* line 47: File::create failed; ? returns the error
CreateOutputFails ==
    /\ pc = "create"
    /\ pc' = "failed"
    /\ err' = "create"
    /\ UNCHANGED <<input_file, in_lines, pos, opened, created, out_exists, out_content, wrote>>
    /\ UNCHANGED cvars

\* lines 50-52: the reader yields the next line and clean_text is called on it
NextLine ==
    /\ pc = "loop"
    /\ pos < Len(in_lines)
    /\ input' = in_lines[pos + 1]
    /\ original' = in_lines[pos + 1]
    /\ no_ansi' = <<>>
    /\ cleaned' = <<>>
    /\ calls' = 1
    /\ cpc' = "start"
    /\ pc' = "clean"
    /\ UNCHANGED <<input_file, in_lines, pos, opened, created, out_exists, out_content, wrote, err>>

\* line 51: the reader yields an error (on any read, the one that would find
\* the end of input included); ? returns it
ReadFails ==
    /\ pc = "loop"
    /\ pc' = "failed"
    /\ err' = "read"
    /\ UNCHANGED <<input_file, in_lines, pos, opened, created, out_exists, out_content, wrote>>
    /\ UNCHANGED cvars

\* One successful write call of the writeln! of line 53 when rec is what the
\* statement has to write and its first lineLen bytes are the line.  The line
\* and the terminator are handed to the unbuffered File by separate write_all
\* calls, so one write call takes n >= 1 bytes of the piece under way and never
\* bytes of both pieces.  The call that completes rec ends the iteration.
WriteStep(rec, lineLen) ==
    /\ pc = "clean"
    /\ cpc = "done"
    /\ wrote < Len(rec)
    /\ \E n \in 1..((IF wrote < lineLen THEN lineLen ELSE Len(rec)) - wrote) :
          /\ out_content' = out_content \o SubSeq(rec, wrote + 1, wrote + n)
          /\ IF wrote + n = Len(rec)
             THEN /\ wrote' = 0
                  /\ pos' = pos + 1
                  /\ cpc' = "idle"
                  /\ pc' = "loop"
             ELSE /\ wrote' = wrote + n
                  /\ UNCHANGED <<pos, cpc, pc>>
    /\ UNCHANGED <<input_file, in_lines, opened, created, out_exists, err>>
    /\ UNCHANGED <<input, no_ansi, cleaned, calls, original>>

\* A variant that writes the line without its terminator (write! for writeln!).
WriteBytesNoTerminator == WriteStep(Encode(cleaned), Len(Encode(cleaned)))

\* line 53: writeln!(output, "{}", cleaned_line), one write call at a time
WriteBytes == WriteStep(Record(cleaned), Len(Encode(cleaned)))

\* line 53: a write call of the writeln! failed; ? returns the error.  What the
\* earlier write calls of this statement wrote stays in the file.
WriteFails ==
    /\ pc = "clean"
    /\ cpc = "done"
    /\ pc' = "failed"
    /\ err' = "write"
    /\ UNCHANGED <<input_file, in_lines, pos, opened, created, out_exists, out_content, wrote>>
    /\ UNCHANGED cvars

\* lines 54-60: the reader is exhausted; main returns Ok(())
EndOfInput ==
    /\ pc = "loop"
    /\ pos = Len(in_lines)
    /\ pc' = "done"
    /\ UNCHANGED <<input_file, in_lines, pos, opened, created, out_exists, out_content, wrote, err>>
    /\ UNCHANGED cvars

\* lines 54-59: the reader is exhausted, but stdout cannot be written: the
\* println! of line 56 panics and main does not return Ok(())
EndOfInputPrintPanics ==
    /\ pc = "loop"
    /\ pos = Len(in_lines)
    /\ pc' = "panicked"
    /\ UNCHANGED <<input_file, in_lines, pos, opened, created, out_exists, out_content, wrote, err>>
    /\ UNCHANGED cvars

NextMain ==
    \/ PickFile
    \/ PickFilePrintPanics
    \/ PickCancelled
    \/ OpenInput
    \/ OpenInputFails
    \/ CreateOutput
    \/ CreateOutputFails
    \/ NextLine
    \/ ReadFails
    \/ StripAnsi
    \/ ReplaceGlyphs
    \/ WriteBytes
    \/ WriteFails
    \/ EndOfInput
    \/ EndOfInputPrintPanics

Spec == InitMain /\ [][NextMain]_vars

----------------------------------------------------------------------------
(* Properties of main, checked under Spec.                                  *)

\* A cleaned line as the output file is to hold it: its bytes and a terminator.
Terminated(line) == Encode(line) \o <<NEWLINE>>

RECURSIVE Expected(_, _)
\* clean_text of the first k lines, each followed by a line terminator.
Expected(ls, k) ==
    IF k = 0 THEN <<>>
    ELSE Expected(ls, k - 1) \o Terminated(clean_text(ls[k]))

\* p is a prefix of q and is not q.
IsProperPrefix(p, q) == Len(p) < Len(q) /\ p = SubSeq(q, 1, Len(p))

\* The writeln! of line pos + 1 is under way, or has failed.
InWriteln == (pc = "clean" /\ cpc = "done") \/ (pc = "failed" /\ err = "write")

\* C8 (as stated): once the output file has been created it holds, in every
\* reachable state, exactly the cleaned first pos input lines, in input order,
\* each followed by a line terminator; pos is the number of input lines when
\* main has returned Ok, and after a read or write error only the lines
\* processed before the error have been written.
C8_LineForLine ==
    created =>
        /\ out_exists
        /\ pos <= Len(in_lines)
        /\ out_content = Expected(in_lines, pos)
        /\ pc = "done" => pos = Len(in_lines)

\* C8 (amended): once the output file has been created it holds the cleaned
\* first pos input lines, in input order, each followed by a line terminator,
\* and after them nothing, except while the writeln! of line pos + 1 is under
\* way or after it has failed: then they are followed by an incomplete
\* (possibly empty) prefix of the bytes of that cleaned line and its
\* terminator.  When main has returned Ok pos is the number of input lines;
\* after a read error the file holds exactly the pos lines written before it.
C8_LineForLineUpToPartialRecord ==
    created =>
        /\ out_exists
        /\ pos <= Len(in_lines)
        /\ pc = "done" => pos = Len(in_lines)
        /\ ~InWriteln => out_content = Expected(in_lines, pos)
        /\ InWriteln =>
              LET done == Expected(in_lines, pos)
              IN  /\ pos < Len(in_lines)
                  /\ Len(done) <= Len(out_content)
                  /\ SubSeq(out_content, 1, Len(done)) = done
                  /\ IsProperPrefix(
                         SubSeq(out_content, Len(done) + 1, Len(out_content)),
                         Terminated(clean_text(in_lines[pos + 1])))

C8_Witness ==
    /\ created
    /\ pc = "failed"
    /\ err = "write"
    /\ pos = 1
    /\ Len(in_lines) = 3
    /\ HasEscapeSeq(in_lines[2])
    /\ out_content = Expected(in_lines, 1) \o Encode(clean_text(in_lines[2]))
    /\ Len(out_content) > Len(Expected(in_lines, 1))

\* C9: when the picker returned no path main has stopped, nothing more can
\* happen, the input file was not opened and the output path is untouched.
C9_CancelIsFatal ==
    input_file = "none" =>
        /\ pc = "panicked"
        /\ ~ENABLED NextMain
        /\ ~opened
        /\ ~created
        /\ out_content = IF out_exists THEN StaleContent ELSE <<>>

C9_Witness ==
    /\ input_file = "none"
    /\ pc = "panicked"
    /\ ~out_exists
    /\ Len(in_lines) > 0

====
